---------------------------- MODULE Spec2Model ----------------------------
(***************************************************************************)
(* MediLearn federated-aggregation controller (backend/server_main.py).    *)
(*                                                                         *)
(* The controller is a FastAPI application.  Every route declared with     *)
(* "def" and every background task runs on a worker thread, so the run     *)
(* loop simulate_agent_cycle, the handlers update_config and reset and the *)
(* read routes interleave at the granularity of their file operations and  *)
(* of their accesses to the module globals CYCLE_COUNT and HOSPITALS.      *)
(*                                                                         *)
(* Numbers: accuracies are integers in thousandths (the code rounds them   *)
(* to 3 decimals); model parameters are exact fractions [n, d].            *)
(***************************************************************************)
EXTENDS Integers, Sequences, FiniteSets, TLC

(***************************************************************************)
(* Bounds of the model.                                                    *)
(***************************************************************************)
MaxStarts == 2          \* POST /start requests in one behaviour
MaxResets == 1          \* POST /reset requests in one behaviour
MaxConfigUpdates == 1   \* POST /config requests in one behaviour
MaxReads == 1           \* GET requests in one behaviour
NFeatures == 1          \* length of a coefficient vector
MaxVariant == 2         \* distinct successful replies a node can give
MaxResults == 3         \* length of a result list given to an aggregation helper

(***************************************************************************)
(* Program constants.                                                      *)
(***************************************************************************)
DEFAULT_CYCLE_COUNT == 3
U1 == "http://127.0.0.1:8001/train"
U2 == "http://127.0.0.1:8002/train"
U3 == "http://127.0.0.1:8003/train"
DEFAULT_HOSPITALS == <<U1, U2, U3>>

STATUS_FILE == "latest_status.json"
HISTORY_FILE == "training_history.json"
GLOBAL_MODEL_FILE == "global_model.json"
CONFIG_FILE == "agent_config.json"
AGENT_LOG == "agent_log.json"
\* the order in which reset() removes the files
RESET_FILES == <<STATUS_FILE, HISTORY_FILE, GLOBAL_MODEL_FILE, CONFIG_FILE, AGENT_LOG>>
Files == {RESET_FILES[i] : i \in 1..Len(RESET_FILES)}

\* Python's None; also the falsy value of "if weights:"
None == <<>>

(***************************************************************************)
(* Arithmetic helpers.                                                     *)
(***************************************************************************)
Abs(x) == IF x < 0 THEN -x ELSE x

RECURSIVE GCD(_, _)
GCD(a, b) == IF b = 0 THEN a ELSE GCD(b, a % b)

\* the exact value n/d, in lowest terms
Frac(n, d) ==
    LET g == GCD(Abs(n), d)
    IN  [n |-> n \div g, d |-> d \div g]

FracAdd(x, y) == Frac(x.n * y.d + y.n * x.d, x.d * y.d)

RECURSIVE SumSeq(_)
SumSeq(s) == IF s = <<>> THEN 0 ELSE Head(s) + SumSeq(Tail(s))

RECURSIVE FracSum(_)
FracSum(s) == IF s = <<>> THEN Frac(0, 1) ELSE FracAdd(Head(s), FracSum(Tail(s)))

\* round(num/den) to the nearest integer, ties to even (Python's round)
RoundHalfEven(num, den) ==
    LET q == num \div den
        r == num % den
    IN  IF 2 * r < den THEN q
        ELSE IF 2 * r > den THEN q + 1
        ELSE IF q % 2 = 0 THEN q ELSE q + 1

(***************************************************************************)
(* Federated averaging helpers.  A result r is a dict, modelled as a       *)
(* record whose DOMAIN is its set of keys.  Each helper returns            *)
(* [raised, val]: raised is TRUE when the Python code raises.              *)
(***************************************************************************)
\* r.get("samples", 0)
GetSamples(r) == IF "samples" \in DOMAIN r THEN r.samples ELSE 0

HasAccuracyAndSamples(r) == {"accuracy", "samples"} \subseteq DOMAIN r

aggregate_fedavg(results) ==
    LET total_samples == SumSeq([i \in 1..Len(results) |-> GetSamples(results[i])])
    IN  IF total_samples = 0 THEN [raised |-> FALSE, val |-> 0]
        ELSE IF \E i \in 1..Len(results) : ~HasAccuracyAndSamples(results[i])
             THEN [raised |-> TRUE, val |-> 0]      \* KeyError: r["accuracy"]
        ELSE LET weighted_sum ==
                     SumSeq([i \in 1..Len(results) |->
                                 results[i].accuracy * results[i].samples])
             IN  [raised |-> FALSE, val |-> RoundHalfEven(weighted_sum, total_samples)]

HasWeights(r) == "weights" \in DOMAIN r

\* np.mean(vectors, axis=0) of equally long vectors
MeanAxis0(vectors) ==
    [j \in 1..Len(vectors[1]) |->
        LET s == FracSum([i \in 1..Len(vectors) |-> vectors[i][j]])
        IN  Frac(s.n, s.d * Len(vectors))]

SameShape(vectors) == \A i \in 1..Len(vectors) : Len(vectors[i]) = Len(vectors[1])

aggregate_model_weights(results) ==
    LET valid == SelectSeq(results, HasWeights)
        coefs == [i \in 1..Len(valid) |-> valid[i].weights[1]]
        intercepts == [i \in 1..Len(valid) |-> valid[i].weights[2]]
    IN  IF valid = <<>> THEN [raised |-> FALSE, val |-> None]
        ELSE IF ~SameShape(coefs) \/ ~SameShape(intercepts)
             THEN [raised |-> TRUE, val |-> None]   \* ValueError: inhomogeneous shape
        ELSE [raised |-> FALSE, val |-> <<MeanAxis0(coefs), MeanAxis0(intercepts)>>]

(***************************************************************************)
(* The hospital nodes (backend/hospital_A.py ...), seen from the           *)
(* controller: the outcome of one POST <url> is one of Kinds.              *)
(***************************************************************************)
Kinds == {"ok", "timeout", "refused", "invalid", "nofields"}
\* outcomes for which client.post raises (gather returns the exception);
\* "typeerror": the url given to client.post is not a str, no request is sent
ExceptionKinds == {"timeout", "refused", "typeerror"}

\* The entry add_hospital of backend/hospital_manager.py puts in the list
\* "hospitals" is a dict, where the controller's own entries are URL strings.
\* It is written here as its JSON text, so that every element of HOSPITALS is
\* a string of the model; DictEntries tells the dicts from the URLs.
U4 == "http://127.0.0.1:8004/train"
NewEntry ==
    "{\"name\": \"Hospital_D\", \"port\": 8004, \"endpoint\": \"http://127.0.0.1:8004/train\"}"
DictEntries == {NewEntry}
\* new_entry["endpoint"]
Endpoint(entry) == U4

NodeIndex(url) == CASE url = U1 -> 1 [] url = U2 -> 2 [] OTHER -> 3
NodeName(url) == CASE url = U1 -> "Hospital_A" [] url = U2 -> "Hospital_B"
                   [] OTHER -> "Hospital_C"

\* What a node reports when it trains successfully; v selects one of the
\* replies the node can give (its training is not deterministic).
Accuracy(url, v) == 1000 - 200 * NodeIndex(url) - 50 * (v - 1)
Samples(url) == 4 - NodeIndex(url)
LocalWeights(url, v) ==
    << [j \in 1..NFeatures |-> Frac(NodeIndex(url) + j + v, 1)], <<Frac(v, 1)>> >>

OkReply(url, v) ==
    [hospital |-> NodeName(url), accuracy |-> Accuracy(url, v),
     samples |-> Samples(url), weights |-> LocalWeights(url, v)]

\* a well-formed body without the training fields, e.g. {"detail": "Not Found"}
NoFieldsReply == [detail |-> "Not Found"]

\* f"Hospital_{chr(65+i)}", i counted from 1 here
HospitalLetter(i) == "Hospital_" \o <<"A", "B", "C", "D", "E", "F">>[i]
ErrorEntry(i, kind) == [hospital |-> HospitalLetter(i), error |-> kind]

\* results.append(...) for response i of train_all_hospitals
ResultEntry(hs, i, kind, v) ==
    IF kind \in ExceptionKinds THEN ErrorEntry(i, kind)
    ELSE IF kind = "nofields" THEN NoFieldsReply
    ELSE OkReply(hs[i], v)

\* train_all_hospitals: [raised, val]; res.json() raises on an invalid body
train_all_hospitals(hs, o, v) ==
    IF \E i \in 1..Len(hs) : o[i] = "invalid"
    THEN [raised |-> TRUE, val |-> <<>>]
    ELSE [raised |-> FALSE, val |-> [i \in 1..Len(hs) |-> ResultEntry(hs, i, o[i], v)]]

\* Outcome vectors in which the failing nodes of a cycle fail the same way.
HomogeneousOutcomes(hs) ==
    {o \in [1..Len(hs) -> Kinds] : Cardinality({o[i] : i \in 1..Len(hs)} \ {"ok"}) <= 1}

\* Outcome vectors in which at most the first node fails.
FirstNodeOutcomes(hs) ==
    {o \in [1..Len(hs) -> Kinds] : \A i \in 2..Len(hs) : o[i] = "ok"}

(***************************************************************************)
(* State.                                                                  *)
(***************************************************************************)
VARIABLES
    CYCLE_COUNT,    \* module global
    HOSPITALS,      \* module global, mutated in place by load_config
    fstate,         \* per file: "absent", "partial" (opened "w", not yet closed,
                    \*           or garbled: not a JSON document) or "ok"
    fdata,          \* per file: its document when "ok" (status and config are
                    \*           wrapped in a 1-tuple), <<>> otherwise
    fgen,           \* per file: how many times it was removed (its inode)
    run,            \* per /start request: the thread running simulate_agent_cycle
    rpc,            \* reset handler: number of files handled, 0 when not running
    resets,         \* /reset requests that have returned
    clean,          \* TRUE from the return of a reset to the next cycle write
    histSeen,       \* the last complete document HISTORY_FILE held (history variable)
    preReset,       \* the <<run, cycle>> of the records of histSeen when the latest
                    \* /reset request arrived (history variable)
    cpc,            \* update_config handler: "idle", "write" or "load"
    cfgArg,         \* update_config handler: its argument cfg
    updates,        \* /config requests that have returned
    dirtyCfg,       \* TRUE when a /config request arrived, or was being served,
                    \* since the latest /reset request arrived
    reads,          \* GET requests served
    resp,           \* the last GET response
    fn              \* the aggregation helpers applied on their own:
                    \* [results, accuracy, weights], the last two <<>> before
                    \* the call and <<[raised, val]>> after it

vars == <<CYCLE_COUNT, HOSPITALS, fstate, fdata, fgen, run, rpc, resets, clean, histSeen, preReset,
          cpc, cfgArg, updates, dirtyCfg, reads, resp, fn>>

fileVars == <<fstate, fdata, fgen>>
globalVars == <<CYCLE_COUNT, HOSPITALS>>
resetVars == <<rpc, resets>>
configVars == <<cpc, cfgArg, updates, dirtyCfg>>
readVars == <<reads, resp>>

Runs == 1..MaxStarts

IdleRun ==
    [pc |-> "idle", cycle |-> 0, n |-> 0, global_weights |-> None,
     results |-> <<>>, global_accuracy |-> 0, new_global_weights |-> None,
     buf |-> <<>>, wgen |-> 0,
     tasks |-> <<>>,         \* train_all_hospitals: the url of each call
     pending |-> {},         \* train_all_hospitals: the calls not yet completed
     arrivals |-> <<>>,      \* train_all_hospitals: [index, kind] of the completed
                             \* calls, in the order of their completion
     \* history variables, not program state:
     sent |-> None,          \* global_weights passed to the latest train_all_hospitals
     prev_results |-> <<>>,  \* results of the cycle before the latest one
     sent_cycle |-> 0,       \* the cycle of the latest train_all_hospitals
     outcome |-> <<>>,       \* the outcome of each node call of that cycle
     used |-> <<>>,          \* HOSPITALS as read by the latest train_all_hospitals
     loaded |-> <<>>,        \* <<CYCLE_COUNT, HOSPITALS, dirtyCfg>> after the run's
                             \* load_config
     exc |-> "",             \* the exception that ended the run
     after_reset |-> FALSE,  \* started after a reset had returned
     status_cycle |-> 0,     \* the cycle counter of the status the run wrote last
     status_over |-> <<>>,   \* <<run, cycle>> of the status document that write
                             \* replaced, <<>> when there was none
     killed_at |-> "",       \* the pc at which the process was killed
     actual |-> <<>>]        \* per call of the latest gather: how it completed

\* The state when the controller process has started.  The files outlive the
\* process: stored is <<>> when CONFIG_FILE does not exist, <<cfg>> when an
\* earlier process (or the hospital manager) left cfg there.  The globals are
\* the module's defaults until load_config runs.
BootState(stored) ==
    /\ CYCLE_COUNT = DEFAULT_CYCLE_COUNT
    /\ HOSPITALS = DEFAULT_HOSPITALS
    /\ fstate = [f \in Files |-> IF f = CONFIG_FILE /\ stored # <<>> THEN "ok" ELSE "absent"]
    /\ fdata = [f \in Files |-> IF f = CONFIG_FILE THEN stored ELSE <<>>]
    /\ fgen = [f \in Files |-> 0]
    /\ run = [r \in Runs |-> IdleRun]
    /\ rpc = 0
    /\ resets = 0
    /\ clean = FALSE
    /\ histSeen = <<>>
    /\ preReset = {}
    /\ cpc = "idle"
    /\ cfgArg = <<>>
    /\ updates = 0
    /\ dirtyCfg = FALSE
    /\ reads = 0
    /\ resp = <<>>

\* no helper is called on its own
NoCall == [results |-> <<>>, accuracy |-> <<>>, weights |-> <<>>]

Boot(stored) == BootState(stored) /\ fn = NoCall

\* a fresh installation
Init == Boot(<<>>)

(***************************************************************************)
(* File operations.                                                        *)
(***************************************************************************)
\* open(f, "w"): creates or truncates f
OpenW(f) ==
    /\ fstate' = [fstate EXCEPT ![f] = "partial"]
    /\ fdata' = [fdata EXCEPT ![f] = <<>>]
    /\ UNCHANGED fgen

\* json.dump + close by a writer that opened f when its generation was g.
\* A file removed since then is not written (the bytes go to the unlinked
\* inode).  When another writer completed a write since this one truncated
\* the file, the bytes of both are overlaid: this writer's document, or no
\* document at all (garble).
CloseW(f, g, doc, garble) ==
    /\ garble => (fgen[f] = g /\ fstate[f] = "ok")
    /\ IF fgen[f] # g THEN UNCHANGED <<fstate, fdata>>
       ELSE IF garble
            THEN /\ fstate' = [fstate EXCEPT ![f] = "partial"]
                 /\ fdata' = [fdata EXCEPT ![f] = <<>>]
       ELSE /\ fstate' = [fstate EXCEPT ![f] = "ok"]
            /\ fdata' = [fdata EXCEPT ![f] = doc]
    /\ UNCHANGED fgen

\* os.remove(f)
Remove(f) ==
    /\ fstate' = [fstate EXCEPT ![f] = "absent"]
    /\ fdata' = [fdata EXCEPT ![f] = <<>>]
    /\ fgen' = [fgen EXCEPT ![f] = @ + 1]

\* "if os.path.exists(f): json.load(f)" guarded by except JSONDecodeError,
\* as in log_history and log_agent_action: the list read, [] otherwise
ReadListOrEmpty(f) == IF fstate[f] = "ok" THEN fdata[f] ELSE <<>>

(***************************************************************************)
(* load_config.  cfg is a dict: a record with keys among cycles, hospitals.*)
(***************************************************************************)
CfgCycles(cfg) == IF "cycles" \in DOMAIN cfg THEN cfg.cycles ELSE 3
CfgHospitals(cfg, current) ==
    IF "hospitals" \in DOMAIN cfg THEN cfg.hospitals ELSE current

\* TRUE when json.load(CONFIG_FILE) raises
LoadConfigRaises == fstate[CONFIG_FILE] = "partial"

load_config ==
    IF fstate[CONFIG_FILE] = "ok"
    THEN /\ CYCLE_COUNT' = CfgCycles(fdata[CONFIG_FILE][1])
         /\ HOSPITALS' = CfgHospitals(fdata[CONFIG_FILE][1], HOSPITALS)
    ELSE UNCHANGED globalVars

(***************************************************************************)
(* simulate_agent_cycle, one thread per /start request.                    *)
(***************************************************************************)
Raise(r, e) == [run EXCEPT ![r].pc = "raised", ![r].exc = e]

\* POST /start: the background task is scheduled without any check
start_simulation(r) ==
    /\ run[r].pc = "idle"
    /\ \A q \in Runs : q < r => run[q].pc # "idle"
    /\ run' = [run EXCEPT ![r].pc = "load_config",
                          ![r].after_reset = (resets > 0 /\ rpc = 0)]
    /\ UNCHANGED <<fn, histSeen, preReset, globalVars, fileVars, resetVars, clean, configVars, readVars>>

\* line 135: load_config()
RunLoadConfig(r) ==
    /\ run[r].pc = "load_config"
    /\ IF LoadConfigRaises
       THEN /\ run' = Raise(r, "load_config: JSONDecodeError")
            /\ UNCHANGED globalVars
       ELSE /\ load_config
            /\ run' = [run EXCEPT ![r].pc = "load_model",
                                  ![r].loaded = <<CYCLE_COUNT', HOSPITALS', dirtyCfg>>]
    /\ UNCHANGED <<fn, histSeen, preReset, fileVars, resetVars, clean, configVars, readVars>>

\* a variant of load_global_model that does not read the store
LoadNoModel == [raised |-> FALSE, val |-> None]

\* load_global_model: [raised, val]
load_global_model ==
    IF fstate[GLOBAL_MODEL_FILE] = "ok" THEN [raised |-> FALSE, val |-> fdata[GLOBAL_MODEL_FILE]]
    ELSE IF fstate[GLOBAL_MODEL_FILE] = "partial" THEN [raised |-> TRUE, val |-> None]
    ELSE [raised |-> FALSE, val |-> None]

\* the first value of "for cycle in range(1, CYCLE_COUNT + 1)": the pc after
\* the statement before a cycle, given the cycle to run and the last one
LoopPc(cycle, n) == IF cycle <= n THEN "log_start_read" ELSE "done"

\* lines 136-142: global_weights = load_global_model(); range(1, CYCLE_COUNT + 1)
\* is evaluated once, here
RunLoadModel(r) ==
    /\ run[r].pc = "load_model"
    /\ LET m == load_global_model
       IN  run' = IF m.raised THEN Raise(r, "load_global_model: JSONDecodeError")
                  ELSE [run EXCEPT ![r].pc = LoopPc(1, CYCLE_COUNT),
                                   ![r].cycle = IF CYCLE_COUNT >= 1 THEN 1 ELSE 0,
                                   ![r].n = CYCLE_COUNT,
                                   ![r].global_weights = m.val]
    /\ UNCHANGED <<fn, histSeen, preReset, globalVars, fileVars, resetVars, clean, configVars, readVars>>

\* log_agent_action, lines 72-78: log = json.load(AGENT_LOG) or []
RunLogRead(r) ==
    /\ run[r].pc \in {"log_start_read", "log_done_read"}
    /\ run' = [run EXCEPT ![r].buf = ReadListOrEmpty(AGENT_LOG),
                          ![r].pc = IF @ = "log_start_read" THEN "log_start_open"
                                    ELSE "log_done_open"]
    /\ UNCHANGED <<fn, histSeen, preReset, globalVars, fileVars, resetVars, clean, configVars, readVars>>

\* log_agent_action, line 80: open(AGENT_LOG, "w")
RunLogOpen(r) ==
    /\ run[r].pc \in {"log_start_open", "log_done_open"}
    /\ OpenW(AGENT_LOG)
    /\ run' = [run EXCEPT ![r].wgen = fgen[AGENT_LOG],
                          ![r].pc = IF @ = "log_start_open" THEN "log_start_write"
                                    ELSE "log_done_write"]
    /\ clean' = FALSE
    /\ UNCHANGED <<fn, histSeen, preReset, globalVars, resetVars, configVars, readVars>>

LogEntry(r, action) == [cycle |-> run[r].cycle, action |-> action, run |-> r]

\* a variant of line 165 that takes the stored model instead
CarryForwardStored(new_global_weights, stored) == stored

\* line 165: what the next cycle sends to the nodes
CarryForward(new_global_weights, stored) == new_global_weights

\* the model as stored now, None when there is none
StoredModel == IF fstate[GLOBAL_MODEL_FILE] = "ok" THEN fdata[GLOBAL_MODEL_FILE] ELSE None

\* log_agent_action, lines 79-81: the entry is appended and the log written;
\* for the "Completed" entry the cycle ends here (lines 165-166 and the loop)
RunLogWrite(r, garble) ==
    /\ run[r].pc \in {"log_start_write", "log_done_write"}
    /\ IF run[r].pc = "log_start_write"
       THEN /\ CloseW(AGENT_LOG, run[r].wgen,
                      Append(run[r].buf, LogEntry(r, "Starting")), garble)
            /\ run' = [run EXCEPT ![r].pc = "train", ![r].buf = <<>>]
       ELSE /\ CloseW(AGENT_LOG, run[r].wgen,
                      Append(run[r].buf, LogEntry(r, "Completed")), garble)
            /\ run' = [run EXCEPT
                         ![r].pc = LoopPc(run[r].cycle + 1, run[r].n),
                         ![r].cycle = IF @ < run[r].n THEN @ + 1 ELSE @,
                         ![r].buf = <<>>,
                         ![r].global_weights =
                             CarryForward(run[r].new_global_weights, StoredModel)]
    /\ clean' = FALSE
    /\ UNCHANGED <<fn, histSeen, preReset, globalVars, resetVars, configVars, readVars>>

\* a variant of line 150 that never writes the model
AfterAggregateSkip(new_global_weights) == "status_open"

\* save_global_model writes only "if weights:"
AfterAggregatePc(new_global_weights) ==
    IF new_global_weights # None THEN "model_open" ELSE "status_open"

\* lines 146-149: results = asyncio.run(train_all_hospitals(global_weights)),
\* then the two aggregations.  o: the outcome of each call, v: the replies'
\* variant.
AfterTrain(r, hs, o, v) ==
       LET t == train_all_hospitals(hs, o, v)
           acc == aggregate_fedavg(t.val)
           new == aggregate_model_weights(t.val)
           sentNow == [run EXCEPT ![r].sent = run[r].global_weights,
                                  ![r].prev_results = run[r].results,
                                  ![r].sent_cycle = run[r].cycle,
                                  ![r].outcome = o,
                                  ![r].used = hs]
       IN         IF t.raised
                  THEN [sentNow EXCEPT ![r].pc = "raised", ![r].exc = "res.json: JSONDecodeError",
                                       ![r].results = <<>>]
                  ELSE IF acc.raised
                  THEN [sentNow EXCEPT ![r].pc = "raised", ![r].exc = "aggregate_fedavg: KeyError",
                                       ![r].results = t.val]
                  ELSE IF new.raised
                  THEN [sentNow EXCEPT ![r].pc = "raised", ![r].exc = "aggregate_model_weights: ValueError",
                                       ![r].results = t.val]
                  ELSE [sentNow EXCEPT ![r].pc = AfterAggregatePc(new.val),
                                       ![r].results = t.val,
                                       ![r].global_accuracy = acc.val,
                                       ![r].new_global_weights = new.val]

\* train_all_hospitals and the aggregations as one step
RunTrain(r, o, v) ==
    /\ run[r].pc = "train"
    /\ run' = AfterTrain(r, HOSPITALS, o, v)
    /\ UNCHANGED <<fn, histSeen, preReset, globalVars, fileVars, resetVars, clean, configVars, readVars>>

(***************************************************************************)
(* train_all_hospitals call by call, lines 118-129: the calls are created  *)
(* for the urls of HOSPITALS (line 121), complete in any order, and        *)
(* asyncio.gather with return_exceptions=True returns when all of them     *)
(* have completed, with the response or exception of task i at index i.    *)
(***************************************************************************)
\* lines 120-121
TrainBegin(r) ==
    /\ run[r].pc = "train"
    /\ run' = [run EXCEPT ![r].pc = "gather",
                          ![r].tasks = HOSPITALS,
                          ![r].pending = 1..Len(HOSPITALS),
                          ![r].arrivals = <<>>,
                          ![r].actual = [i \in 1..Len(HOSPITALS) |-> ""]]
    /\ UNCHANGED <<fn, histSeen, preReset, globalVars, fileVars, resetVars, clean, configVars, readVars>>

\* call i returns a response or raises; the other calls go on
CallCompletes(r, i, kind) ==
    /\ run[r].pc = "gather"
    /\ i \in run[r].pending
    /\ kind = "typeerror" <=> run[r].tasks[i] \in DictEntries
    /\ run' = [run EXCEPT ![r].pending = @ \ {i},
                          ![r].arrivals = Append(@, [index |-> i, kind |-> kind]),
                          ![r].actual[i] = kind]
    /\ UNCHANGED <<fn, histSeen, preReset, globalVars, fileVars, resetVars, clean, configVars, readVars>>

\* a variant of gather that returns the responses in the order of completion
GatherAsCompleted(arrivals, n) == [k \in 1..n |-> arrivals[k].kind]

\* responses = await asyncio.gather(...): the result of task i at index i
Gather(arrivals, n) ==
    [i \in 1..n |-> arrivals[CHOOSE k \in 1..Len(arrivals) : arrivals[k].index = i].kind]

\* line 122 returns, lines 124-129 build the results, then lines 148-149
GatherReturns(r, v) ==
    /\ run[r].pc = "gather"
    /\ run[r].pending = {}
    /\ run' = AfterTrain(r, run[r].tasks,
                         Gather(run[r].arrivals, Len(run[r].tasks)), v)
    /\ UNCHANGED <<fn, histSeen, preReset, globalVars, fileVars, resetVars, clean, configVars, readVars>>

\* save_global_model, line 105: open(GLOBAL_MODEL_FILE, "w")
RunModelOpen(r) ==
    /\ run[r].pc = "model_open"
    /\ OpenW(GLOBAL_MODEL_FILE)
    /\ run' = [run EXCEPT ![r].pc = "model_write", ![r].wgen = fgen[GLOBAL_MODEL_FILE]]
    /\ clean' = FALSE
    /\ UNCHANGED <<fn, histSeen, preReset, globalVars, resetVars, configVars, readVars>>

\* save_global_model, line 106
RunModelWrite(r, garble) ==
    /\ run[r].pc = "model_write"
    /\ CloseW(GLOBAL_MODEL_FILE, run[r].wgen, run[r].new_global_weights, garble)
    /\ run' = [run EXCEPT ![r].pc = "status_open"]
    /\ clean' = FALSE
    /\ UNCHANGED <<fn, histSeen, preReset, globalVars, resetVars, configVars, readVars>>

\* a variant of lines 152-157 that leaves "cycle" as line 140 set it
GlobalDataStale(r) ==
    [hospitals |-> run[r].results, global_accuracy |-> run[r].global_accuracy,
     cycle |-> 0, run |-> r]

\* lines 152-157: global_data after update (the timestamp is left out; the
\* run's number stands for it where records are told apart)
GlobalData(r) ==
    [hospitals |-> run[r].results, global_accuracy |-> run[r].global_accuracy,
     cycle |-> run[r].cycle, run |-> r]

\* save_status, line 56
RunStatusOpen(r) ==
    /\ run[r].pc = "status_open"
    /\ OpenW(STATUS_FILE)
    /\ run' = [run EXCEPT ![r].pc = "status_write", ![r].wgen = fgen[STATUS_FILE],
                          ![r].status_cycle = GlobalData(r).cycle,
                          ![r].status_over =
                              IF fstate[STATUS_FILE] = "ok"
                              THEN <<fdata[STATUS_FILE][1].run, fdata[STATUS_FILE][1].cycle>>
                              ELSE <<>>]
    /\ clean' = FALSE
    /\ UNCHANGED <<fn, histSeen, preReset, globalVars, resetVars, configVars, readVars>>

\* save_status, line 57
RunStatusWrite(r, garble) ==
    /\ run[r].pc = "status_write"
    /\ CloseW(STATUS_FILE, run[r].wgen, <<GlobalData(r)>>, garble)
    /\ run' = [run EXCEPT ![r].pc = "hist_read"]
    /\ clean' = FALSE
    /\ UNCHANGED <<fn, histSeen, preReset, globalVars, resetVars, configVars, readVars>>

\* log_history, lines 60-66
RunHistRead(r) ==
    /\ run[r].pc = "hist_read"
    /\ run' = [run EXCEPT ![r].pc = "hist_open", ![r].buf = ReadListOrEmpty(HISTORY_FILE)]
    /\ UNCHANGED <<fn, histSeen, preReset, globalVars, fileVars, resetVars, clean, configVars, readVars>>

\* log_history, line 68
RunHistOpen(r) ==
    /\ run[r].pc = "hist_open"
    /\ OpenW(HISTORY_FILE)
    /\ run' = [run EXCEPT ![r].pc = "hist_write", ![r].wgen = fgen[HISTORY_FILE]]
    /\ clean' = FALSE
    /\ UNCHANGED <<fn, histSeen, preReset, globalVars, resetVars, configVars, readVars>>

\* log_history, lines 67 and 69
RunHistWrite(r, garble) ==
    /\ run[r].pc = "hist_write"
    /\ CloseW(HISTORY_FILE, run[r].wgen, Append(run[r].buf, GlobalData(r)), garble)
    /\ run' = [run EXCEPT ![r].pc = "log_done_read", ![r].buf = <<>>]
    /\ clean' = FALSE
    /\ histSeen' = IF fstate'[HISTORY_FILE] = "ok" THEN fdata'[HISTORY_FILE] ELSE histSeen
    /\ UNCHANGED <<fn, preReset, globalVars, resetVars, configVars, readVars>>

(***************************************************************************)
(* The controller process is killed and started again.  Threads and        *)
(* handlers in flight are gone, a file opened for writing stays as it is,  *)
(* and the module is imported anew (lines 28-33); nothing calls            *)
(* simulate_agent_cycle at import.                                         *)
(***************************************************************************)
Alive(r) == run[r].pc \notin {"idle", "done", "raised", "killed"}

Crash ==
    /\ CYCLE_COUNT' = DEFAULT_CYCLE_COUNT
    /\ HOSPITALS' = DEFAULT_HOSPITALS
    /\ run' = [r \in Runs |->
                  IF Alive(r) THEN [run[r] EXCEPT !.pc = "killed", !.killed_at = run[r].pc]
                  ELSE run[r]]
    /\ rpc' = 0
    /\ cpc' = "idle"
    /\ cfgArg' = <<>>
    /\ UNCHANGED <<fn, histSeen, preReset, fileVars, resets, clean, updates, dirtyCfg, readVars>>

(***************************************************************************)
(* POST /reset, lines 224-230: the files are removed one after the other.  *)
(***************************************************************************)
ResetFile(i) ==
    IF fstate[RESET_FILES[i]] # "absent" THEN Remove(RESET_FILES[i])
    ELSE UNCHANGED fileVars

\* the request arrives and the first file is handled
ResetBegin ==
    /\ rpc = 0
    /\ resets < MaxResets
    /\ ResetFile(1)
    /\ rpc' = 1
    /\ preReset' = {<<histSeen[i].run, histSeen[i].cycle>> : i \in 1..Len(histSeen)}
    /\ dirtyCfg' = (cpc # "idle")
    /\ UNCHANGED <<fn, histSeen, globalVars, run, resets, clean, cpc, cfgArg, updates, readVars>>

\* the next file is handled; after the last one the handler returns
ResetStep ==
    /\ rpc > 0
    /\ ResetFile(rpc + 1)
    /\ IF rpc + 1 = Len(RESET_FILES)
       THEN /\ rpc' = 0
            /\ resets' = resets + 1
            /\ clean' = TRUE
       ELSE /\ rpc' = rpc + 1
            /\ UNCHANGED <<resets, clean>>
    /\ UNCHANGED <<fn, histSeen, preReset, globalVars, run, configVars, readVars>>

(***************************************************************************)
(* POST /config, lines 179-184.                                            *)
(***************************************************************************)
\* a dict update_config accepts although "cycles" is below 1 and "hospitals"
\* is missing
InvalidConfig == [cycles |-> 0]

ConfigInputs ==
    { [cycles |-> 1, hospitals |-> <<U2>>],
      [cycles |-> 2, hospitals |-> <<U3, U1>>],
      InvalidConfig }

\* line 181: open(CONFIG_FILE, "w")
UpdateConfigOpen(cfg) ==
    /\ cpc = "idle"
    /\ updates < MaxConfigUpdates
    /\ OpenW(CONFIG_FILE)
    /\ cpc' = "write"
    \* the third component is a history variable: the configuration in force
    \* and the stored one when the request arrived
    /\ cfgArg' = <<cfg, fgen[CONFIG_FILE],
                   [cycles |-> CYCLE_COUNT, hospitals |-> HOSPITALS,
                    fstate |-> fstate[CONFIG_FILE], fdata |-> fdata[CONFIG_FILE]]>>
    /\ dirtyCfg' = TRUE
    /\ UNCHANGED <<fn, histSeen, preReset, globalVars, run, resetVars, clean, updates, readVars>>

\* line 182: json.dump(cfg, f)
UpdateConfigWrite(garble) ==
    /\ cpc = "write"
    /\ CloseW(CONFIG_FILE, cfgArg[2], <<cfgArg[1]>>, garble)
    /\ cpc' = "load"
    /\ UNCHANGED <<fn, histSeen, preReset, globalVars, run, resetVars, clean, cfgArg, updates, dirtyCfg, readVars>>

\* line 183: load_config(); the handler returns (or answers 500 when
\* json.load raises)
UpdateConfigLoad ==
    /\ cpc = "load"
    /\ IF LoadConfigRaises THEN UNCHANGED globalVars ELSE load_config
    /\ cpc' = "idle"
    /\ cfgArg' = <<>>
    /\ updates' = updates + 1
    /\ UNCHANGED <<fn, histSeen, preReset, fileVars, run, resetVars, clean, dirtyCfg, readVars>>

(***************************************************************************)
(* POST /add_hospital of backend/hospital_manager.py, lines 107-122: the   *)
(* manager, another process, registers a hospital in the same CONFIG_FILE. *)
(***************************************************************************)
\* the manager's load_config(): the stored dict, or its default
ManagerLoadConfig ==
    IF fstate[CONFIG_FILE] = "ok" THEN fdata[CONFIG_FILE][1]
    ELSE [hospitals |-> <<>>, cycles |-> 3]

\* "if not any(h.get("endpoint") == new_entry["endpoint"] ...): append"
AppendNew(hospitals) ==
    IF \E i \in 1..Len(hospitals) : hospitals[i] = NewEntry THEN hospitals
    ELSE Append(hospitals, NewEntry)

add_hospital ==
    /\ fstate[CONFIG_FILE] # "partial"
    /\ LET cfg == ManagerLoadConfig
           hospitals == IF "hospitals" \in DOMAIN cfg THEN cfg.hospitals ELSE <<>>
           saved == [k \in DOMAIN cfg \cup {"hospitals"} |->
                        IF k = "hospitals" THEN AppendNew(hospitals) ELSE cfg[k]]
       IN  /\ fstate' = [fstate EXCEPT ![CONFIG_FILE] = "ok"]
           /\ fdata' = [fdata EXCEPT ![CONFIG_FILE] = <<saved>>]
    /\ UNCHANGED <<fn, histSeen, preReset, fgen, globalVars, run, resetVars, clean, configVars, readVars>>

(***************************************************************************)
(* The read routes, lines 186-222.  A response is [op, code, body].        *)
(***************************************************************************)
ReadOps == {"status", "history", "global_model", "agent_log", "stream"}

\* "if os.path.exists(f): return json.load(f)", else the route's default;
\* json.load raising is an unhandled exception: FastAPI answers 500
JsonRoute(op, f, missingCode, missingBody) ==
    IF fstate[f] = "ok" THEN [op |-> op, code |-> 200, body |-> fdata[f]]
    ELSE IF fstate[f] = "partial" THEN [op |-> op, code |-> 500, body |-> <<"malformed">>]
    ELSE [op |-> op, code |-> missingCode, body |-> missingBody]

get_status == JsonRoute("status", STATUS_FILE, 404, <<"No training data yet">>)
get_history == JsonRoute("history", HISTORY_FILE, 200, <<>>)
get_global_model ==
    JsonRoute("global_model", GLOBAL_MODEL_FILE, 200, <<"No global weights yet.">>)
get_agent_log == JsonRoute("agent_log", AGENT_LOG, 200, <<>>)

\* one iteration of event_stream: f.read() is sent as it is, and nothing is
\* sent when the file does not exist
stream_status ==
    IF fstate[STATUS_FILE] = "ok"
    THEN [op |-> "stream", code |-> 200, body |-> fdata[STATUS_FILE]]
    ELSE IF fstate[STATUS_FILE] = "partial"
    THEN [op |-> "stream", code |-> 200, body |-> <<"malformed">>]
    ELSE [op |-> "stream", code |-> 200, body |-> <<"nothing sent">>]

Response(op) ==
    CASE op = "status" -> get_status
      [] op = "history" -> get_history
      [] op = "global_model" -> get_global_model
      [] op = "agent_log" -> get_agent_log
      [] OTHER -> stream_status

Read(op) ==
    /\ reads < MaxReads
    /\ reads' = reads + 1
    /\ resp' = <<Response(op)>>
    /\ UNCHANGED <<fn, histSeen, preReset, globalVars, fileVars, run, resetVars, clean, configVars>>

(***************************************************************************)
(* Specifications.                                                         *)
(***************************************************************************)
\* the outcome vectors a specification draws from
\* client.post(url, ...) raises TypeError when url is a dict
Forced(hs, o) == [i \in 1..Len(hs) |-> IF hs[i] \in DictEntries THEN "typeerror" ELSE o[i]]

OutcomeSet(mode, hs) ==
    {Forced(hs, o) :
        o \in IF mode = "homogeneous" THEN HomogeneousOutcomes(hs) ELSE FirstNodeOutcomes(hs)}

\* the steps of simulate_agent_cycle other than train_all_hospitals
RunFiles(r) ==
    \/ RunLoadConfig(r)
    \/ RunLoadModel(r)
    \/ RunLogRead(r)
    \/ RunLogOpen(r)
    \/ \E g \in BOOLEAN : RunLogWrite(r, g)
    \/ RunModelOpen(r)
    \/ \E g \in BOOLEAN : RunModelWrite(r, g)
    \/ RunStatusOpen(r)
    \/ \E g \in BOOLEAN : RunStatusWrite(r, g)
    \/ RunHistRead(r)
    \/ RunHistOpen(r)
    \/ \E g \in BOOLEAN : RunHistWrite(r, g)

\* the steps of simulate_agent_cycle
RunBody(r, mode, Variants) ==
    \/ RunFiles(r)
    \/ \E o \in OutcomeSet(mode, HOSPITALS), v \in Variants : RunTrain(r, o, v)

RunStep(r, mode, Variants) == start_simulation(r) \/ RunBody(r, mode, Variants)

Reset == ResetBegin \/ ResetStep

UpdateConfig ==
    \/ \E cfg \in ConfigInputs : UpdateConfigOpen(cfg)
    \/ \E g \in BOOLEAN : UpdateConfigWrite(g)
    \/ UpdateConfigLoad

AllVariants == 1..MaxVariant

\* The whole controller: overlapping runs, reset, config updates and reads.
Next ==
    \/ \E r \in Runs : RunStep(r, "homogeneous", AllVariants)
    \/ Reset
    \/ UpdateConfig
    \/ \E op \in ReadOps : Read(op)

Spec == Init /\ [][Next]_vars

\* One run on a fresh installation, every combination of successes and one
\* kind of failure in each cycle.
NextSeq == RunStep(1, "homogeneous", AllVariants)

SpecSeq == Init /\ [][NextSeq]_vars

\* configurations an earlier process left in CONFIG_FILE
StoredOne == [cycles |-> 1, hospitals |-> <<U1, U2>>]
StoredTwo == [cycles |-> 2, hospitals |-> <<U1, U2>>]

\* Overlapping runs.
NextOverlap == \E r \in Runs : RunStep(r, "first", {1})

SpecOverlap == Boot(<<StoredOne>>) /\ [][NextOverlap]_vars

\* One run, a reset and config updates.
NextAdmin ==
    \/ RunStep(1, "first", {1})
    \/ Reset
    \/ UpdateConfig

SpecAdmin == Boot(<<StoredTwo>>) /\ [][NextAdmin]_vars

\* One run, a reset and the read routes.
NextRead ==
    \/ RunStep(1, "first", {1})
    \/ Reset
    \/ \E op \in ReadOps : Read(op)

SpecRead == Boot(<<StoredOne>>) /\ [][NextRead]_vars

\* Successive runs on a fresh installation, the process being killed and
\* started again at any moment; a run is started only when none is alive.
NextRestart ==
    \/ \E r \in Runs : (\A q \in Runs : ~Alive(q)) /\ start_simulation(r)
    \/ \E r \in Runs : RunBody(r, "first", {1})
    \/ Crash

SpecRestart == Init /\ [][NextRestart]_vars

\* One run and the hospital manager registering a hospital.
NextManager ==
    \/ RunStep(1, "homogeneous", AllVariants)
    \/ add_hospital

SpecManager == Boot(<<StoredOne>>) /\ [][NextManager]_vars

\* how a call completes in SpecGather
GatherKinds == {"ok", "timeout", "invalid", "typeerror"}

\* One run on a fresh installation, the node calls of each cycle completing
\* one by one in any order.
NextGather ==
    \/ start_simulation(1)
    \/ RunFiles(1)
    \/ TrainBegin(1)
    \/ \E i \in 1..Len(HOSPITALS), kind \in GatherKinds : CallCompletes(1, i, kind)
    \/ GatherReturns(1, 1)

SpecGather == Init /\ [][NextGather]_vars

\* a successful result reporting no samples
ZeroSamplesReply ==
    [hospital |-> "Hospital_A", accuracy |-> Accuracy(U1, 1), samples |-> 0,
     weights |-> LocalWeights(U1, 1)]

\* a successful result whose coefficient vector has one more element than
\* those of the other nodes
WideReply ==
    [hospital |-> "Hospital_C", accuracy |-> Accuracy(U3, 1), samples |-> Samples(U3),
     weights |-> << [j \in 1..(NFeatures + 1) |-> Frac(j, 1)], <<Frac(1, 1)>> >>]

\* the entries train_all_hospitals can put in a result list
ResultEntries ==
    {OkReply(u, v) : u \in {U1, U2, U3}, v \in AllVariants}
        \cup {ErrorEntry(1, k) : k \in ExceptionKinds}
        \cup {NoFieldsReply, ZeroSamplesReply, WideReply}

ResultLists == UNION {[1..n -> ResultEntries] : n \in 0..MaxResults}

\* aggregate_fedavg(results)
ApplyFedavg ==
    /\ fn.accuracy = <<>>
    /\ fn' = [fn EXCEPT !.accuracy = <<aggregate_fedavg(fn.results)>>]
    /\ UNCHANGED <<histSeen, preReset, globalVars, fileVars, run, resetVars, clean, configVars, readVars>>

\* aggregate_model_weights(results)
ApplyModelWeights ==
    /\ fn.weights = <<>>
    /\ fn' = [fn EXCEPT !.weights = <<aggregate_model_weights(fn.results)>>]
    /\ UNCHANGED <<histSeen, preReset, globalVars, fileVars, run, resetVars, clean, configVars, readVars>>

\* The two aggregation helpers on every result list of up to MaxResults entries.
InitAggregate ==
    /\ BootState(<<>>)
    /\ fn \in {[NoCall EXCEPT !.results = rs] : rs \in ResultLists}

NextAggregate == ApplyFedavg \/ ApplyModelWeights

SpecAggregate == InitAggregate /\ [][NextAggregate]_vars

(***************************************************************************)
(* Properties of one cycle of one run.                                     *)
(***************************************************************************)
\* run r has called train_all_hospitals at least once
Trained(r) == run[r].sent_cycle >= 1

OutcomeIdx(r) == 1..Len(run[r].outcome)

\* at least one call succeeded, at least one timed out or was refused, and
\* nothing else happened
MixedOutcome(o) ==
    /\ \E i \in 1..Len(o) : o[i] = "ok"
    /\ \E i \in 1..Len(o) : o[i] \in ExceptionKinds
    /\ \A i \in 1..Len(o) : o[i] \in {"ok"} \cup ExceptionKinds

IsSuccessEntry(e) == "error" \notin DOMAIN e

\* the sample-weighted mean accuracy of the successful entries, in thousandths
SuccessWeightedMean(results) ==
    LET ok == SelectSeq(results, IsSuccessEntry)
        num == SumSeq([i \in 1..Len(ok) |-> ok[i].accuracy * ok[i].samples])
        den == SumSeq([i \in 1..Len(ok) |-> ok[i].samples])
    IN  RoundHalfEven(num, den)

\* C1: a cycle in which some node calls succeed and some time out or are
\* refused is completed: the run is not ended by an exception, its record has
\* one entry per configured node and its global_accuracy is the
\* sample-weighted mean of the successful entries.
C1_PartialFailureCycleCompletes ==
    \A r \in Runs :
        (Trained(r) /\ MixedOutcome(run[r].outcome)) =>
            /\ run[r].pc # "raised"
            /\ Len(GlobalData(r).hospitals) = Len(run[r].used)
            /\ GlobalData(r).global_accuracy = SuccessWeightedMean(run[r].results)

\* C2: whatever the outcome of a node call (timeout, refused, invalid body,
\* body without the training fields), no exception escapes
\* train_all_hospitals and the node's entry in the results carries an error.
C2_NodeFailureBecomesErrorEntry ==
    \A r \in Runs :
        Trained(r) =>
            /\ ~(run[r].pc = "raised" /\ run[r].exc = "res.json: JSONDecodeError")
            /\ \A i \in OutcomeIdx(r) :
                   run[r].outcome[i] # "ok" =>
                       /\ i \in DOMAIN run[r].results
                       /\ "error" \in DOMAIN run[r].results[i]

AllFailed(o) == o # <<>> /\ \A i \in 1..Len(o) : o[i] # "ok"

\* C3: a cycle in which every node call fails is still recorded, with
\* global_accuracy 0.0, and writes no global model.
C3_AllFailedCycleRecorded ==
    \A r \in Runs :
        (Trained(r) /\ AllFailed(run[r].outcome)) =>
            /\ run[r].pc # "raised"
            /\ run[r].global_accuracy = 0
            /\ run[r].new_global_weights = None

\* C4: from the second cycle of a run on, the global model sent to the nodes
\* is the output of aggregate_model_weights over the results of the cycle
\* before, and of that cycle only.
C4_SentModelIsPreviousAggregate ==
    \A r \in Runs :
        run[r].sent_cycle > 1 =>
            run[r].sent = aggregate_model_weights(run[r].prev_results).val

\* C4 witness: the third cycle sends no model, after a second cycle in which
\* every node failed, although a model of the first cycle is stored.
C4_Witness ==
    /\ run[1].sent_cycle = 3
    /\ run[1].sent = None
    /\ aggregate_model_weights(run[1].prev_results).val = None
    /\ StoredModel # None

(***************************************************************************)
(* Properties of concurrent requests.                                      *)
(***************************************************************************)
\* C5: a run keeps the configuration it loaded when it started: the
\* endpoints every one of its cycles calls and its number of cycles are those
\* in force after its load_config, whatever config update arrives meanwhile.
C5_InFlightRunKeepsItsConfig ==
    \A r \in Runs :
        run[r].loaded # <<>> =>
            /\ Trained(r) => run[r].used = run[r].loaded[2]
            /\ run[r].cycle >= 1 => run[r].n = run[r].loaded[1]

IsPrefix(a, b) == Len(a) <= Len(b) /\ SubSeq(b, 1, Len(a)) = a

\* the cycles of run r for which log_history has returned
Logged(r) ==
    IF run[r].pc \in {"log_done_read", "log_done_open", "log_done_write", "done"}
    THEN 1..run[r].cycle
    ELSE 1..(run[r].cycle - 1)

HasRecord(h, r, c) == \E i \in 1..Len(h) : h[i].run = r /\ h[i].cycle = c

\* C6: without a reset, every complete history document extends the one
\* before it and holds one record for every cycle whose log_history has
\* returned, also when runs overlap.
C6_HistoryAppendOnly ==
    [][ (resets' = 0 /\ rpc' = 0 /\ fstate'[HISTORY_FILE] = "ok") =>
            /\ IsPrefix(histSeen, fdata'[HISTORY_FILE])
            /\ \A r \in Runs : \A c \in Logged(r)' :
                   HasRecord(fdata'[HISTORY_FILE], r, c) ]_vars

Running(r) == Alive(r)

\* C7: at most one run is in progress at any moment.
C7_AtMostOneRunning == Cardinality({r \in Runs : Running(r)}) <= 1

\* C8: no read ever returns an empty or partially written document.
C8_ReadsSeeCompleteDocuments ==
    resp # <<>> => resp[1].body # <<"malformed">>

\* C9: from the return of reset to the next cycle write, history and audit
\* log read as empty, status answers 404 and global_model the "none yet" marker.
C9_EmptyAfterReset ==
    clean =>
        /\ get_history = [op |-> "history", code |-> 200, body |-> <<>>]
        /\ get_status.code = 404
        /\ get_global_model.body = <<"No global weights yet.">>
        /\ get_agent_log = [op |-> "agent_log", code |-> 200, body |-> <<>>]

\* the runs started after a reset had returned
Fresh == {r \in Runs : run[r].after_reset}

\* C10: a run started after a reset (and before any further config update)
\* uses the default configuration and sends no global model in its first
\* cycle; while such a run exists, status, history and audit log hold only
\* records of such runs; and once reset has returned the history holds no
\* record it held when the reset was requested.
C10_CleanStartAfterReset ==
    /\ \A r \in Fresh :
           /\ (run[r].loaded # <<>> /\ ~run[r].loaded[3]) =>
                  /\ run[r].loaded[1] = DEFAULT_CYCLE_COUNT
                  /\ run[r].loaded[2] = DEFAULT_HOSPITALS
           /\ run[r].sent_cycle = 1 => run[r].sent = None
    /\ (Fresh # {} /\ rpc = 0) =>
           /\ fstate[HISTORY_FILE] = "ok" =>
                  \A i \in 1..Len(fdata[HISTORY_FILE]) : fdata[HISTORY_FILE][i].run \in Fresh
           /\ fstate[STATUS_FILE] = "ok" => fdata[STATUS_FILE][1].run \in Fresh
           /\ fstate[AGENT_LOG] = "ok" =>
                  \A i \in 1..Len(fdata[AGENT_LOG]) : fdata[AGENT_LOG][i].run \in Fresh
    /\ (resets > 0 /\ rpc = 0 /\ fstate[HISTORY_FILE] = "ok") =>
           \A i \in 1..Len(fdata[HISTORY_FILE]) :
               <<fdata[HISTORY_FILE][i].run, fdata[HISTORY_FILE][i].cycle>> \notin preReset

(***************************************************************************)
(* Properties of successive runs and of restarts.                          *)
(***************************************************************************)
\* run r has written, or is writing, a status over a complete status document
Overwrites(r) == run[r].status_over # <<>>

\* C11 as stated: every status written has a cycle counter greater than that
\* of the status document it replaces, whichever run wrote that one.
C11_StatusCounterIncreasesAcrossRuns ==
    \A r \in Runs :
        Overwrites(r) => run[r].status_cycle > run[r].status_over[2]

\* C11: within one run, every status the run writes over a status of its own
\* has a greater cycle counter; the counter starts again at 1 with every run.
C11_StatusCounterIncreasesWithinRun ==
    \A r \in Runs :
        (Overwrites(r) /\ run[r].status_over[1] = r) =>
            run[r].status_cycle > run[r].status_over[2]

\* C11 witness: the second run writes its third status over its second one.
C11_Witness ==
    /\ run[2].pc = "hist_read"
    /\ run[2].status_over = <<2, 2>>
    /\ run[2].status_cycle = 3
    /\ fstate[STATUS_FILE] = "ok" /\ fdata[STATUS_FILE][1].cycle = 3

\* the pcs inside a cycle, from its "Starting" entry to its "Completed" entry
CyclePcs ==
    {"log_start_read", "log_start_open", "log_start_write", "train", "gather",
     "model_open", "model_write", "status_open", "status_write",
     "hist_read", "hist_open", "hist_write",
     "log_done_read", "log_done_open", "log_done_write"}

\* the process was killed while run r was inside a cycle, and no run was
\* started since: the files are as the crash left them
CrashedInCycle(r) ==
    /\ run[r].pc = "killed"
    /\ run[r].killed_at \in CyclePcs
    /\ \A q \in Runs : q > r => run[q].pc = "idle"

\* status is the last record of history, or there is neither
StatusIsLastOfHistory ==
    /\ fstate[STATUS_FILE] # "partial"
    /\ fstate[HISTORY_FILE] # "partial"
    /\ IF fstate[STATUS_FILE] = "absent" THEN ReadListOrEmpty(HISTORY_FILE) = <<>>
       ELSE /\ ReadListOrEmpty(HISTORY_FILE) # <<>>
            /\ fdata[STATUS_FILE][1] = fdata[HISTORY_FILE][Len(fdata[HISTORY_FILE])]

\* C12: after a crash inside a cycle, status is the last record of history
\* and neither holds a record of the interrupted cycle.
C12_CrashLeavesLastCompletedCycle ==
    \A r \in Runs :
        CrashedInCycle(r) =>
            /\ StatusIsLastOfHistory
            /\ fstate[STATUS_FILE] = "ok" =>
                   <<fdata[STATUS_FILE][1].run, fdata[STATUS_FILE][1].cycle>> # <<r, run[r].cycle>>
            /\ ~HasRecord(ReadListOrEmpty(HISTORY_FILE), r, run[r].cycle)

\* the process is killed and started again in this step
Restarted == \E r \in Runs : run[r].pc # "killed" /\ run'[r].pc = "killed"

\* run r calls the nodes for the first time in this step
FirstCall(r) == run[r].sent_cycle = 0 /\ run'[r].sent_cycle = 1

\* C13: a restart leaves no run in progress (a run exists only from a /start
\* request on), and the model a run sends in its first cycle is the stored
\* global model, None when none is stored.
C13_FirstCycleSendsStoredModel ==
    [][ /\ Restarted => \A q \in Runs : ~Alive(q)'
        /\ \A r \in Runs : FirstCall(r) => run'[r].sent = StoredModel ]_vars

\* C13 witness: the process was killed during the first run, after that run
\* had stored a model; the second run has sent that model in its first cycle.
C13_Witness ==
    /\ run[1].pc = "killed"
    /\ run[2].sent_cycle = 1
    /\ run[2].pc = "model_open"
    /\ run[2].sent # None
    /\ run[2].sent = StoredModel

(***************************************************************************)
(* Termination of a run.                                                   *)
(***************************************************************************)
\* C14: no run is ended by an exception, whatever the nodes answer, and a run
\* that has ended has called the nodes in each of its n cycles, the last one
\* being cycle n.
C14_RunExecutesAllCycles ==
    \A r \in Runs :
        /\ run[r].pc # "raised"
        /\ run[r].pc = "done" => run[r].sent_cycle = run[r].n

(***************************************************************************)
(* Properties of the aggregation helpers.                                  *)
(***************************************************************************)
IsErrorEntry(e) == "error" \in DOMAIN e

\* a successful result: no error, and the fields a node reports
IsTrainedEntry(e) == ~IsErrorEntry(e) /\ HasAccuracyAndSamples(e)

\* every entry is a successful result or an error entry
WellFormed(results) ==
    \A i \in 1..Len(results) : IsTrainedEntry(results[i]) \/ IsErrorEntry(results[i])

\* the mean accuracy of the successful results weighted by their samples, in
\* thousandths; 0 when they report no sample at all
MeanOverTrained(results) ==
    LET ok == SelectSeq(results, IsTrainedEntry)
        num == SumSeq([i \in 1..Len(ok) |-> ok[i].accuracy * ok[i].samples])
        den == SumSeq([i \in 1..Len(ok) |-> ok[i].samples])
    IN  IF den = 0 THEN 0 ELSE RoundHalfEven(num, den)

\* C15: on a list of successful results and error entries, aggregate_fedavg
\* does not raise and returns the sample-weighted mean accuracy of the
\* successful results alone, 0.0 when the samples sum to 0; with at least one
\* successful result the value lies in [0, 1].
C15_FedavgOverSuccessesOnly ==
    (fn.accuracy # <<>> /\ WellFormed(fn.results)) =>
        /\ ~fn.accuracy[1].raised
        /\ fn.accuracy[1].val = MeanOverTrained(fn.results)
        /\ fn.accuracy[1].val >= 0 /\ fn.accuracy[1].val <= 1000

\* the results that carry parameters whose coefficient vector has length n
OfShape(results, n) ==
    LET Fits(e) == HasWeights(e) /\ Len(e.weights[1]) = n
    IN  SelectSeq(results, Fits)

\* the lengths found most often among the coefficient vectors of results
MajorityShapes(results) ==
    LET valid == SelectSeq(results, HasWeights)
        lens == {Len(valid[i].weights[1]) : i \in 1..Len(valid)}
    IN  {n \in lens : \A k \in lens : Len(OfShape(results, n)) >= Len(OfShape(results, k))}

\* C16: aggregate_model_weights does not raise; it returns None exactly when
\* no result carries parameters, and otherwise the element-wise mean of the
\* parameters of a majority shape.
C16_MeanOverMajorityShape ==
    fn.weights # <<>> =>
        /\ ~fn.weights[1].raised
        /\ fn.weights[1].val = None <=> SelectSeq(fn.results, HasWeights) = <<>>
        /\ fn.weights[1].val # None =>
               \E n \in MajorityShapes(fn.results) :
                   LET valid == OfShape(fn.results, n)
                   IN  fn.weights[1].val =
                           << MeanAxis0([i \in 1..Len(valid) |-> valid[i].weights[1]]),
                              MeanAxis0([i \in 1..Len(valid) |-> valid[i].weights[2]]) >>

(***************************************************************************)
(* Properties of invalid input and of malformed documents.                 *)
(***************************************************************************)
\* cycles is an integer of at least 1 and hospitals is given
ValidConfig(cfg) ==
    /\ "cycles" \in DOMAIN cfg
    /\ cfg.cycles \in Nat \ {0}
    /\ "hospitals" \in DOMAIN cfg

\* update_config returns in this step
ConfigReturns == cpc = "load" /\ cpc' = "idle" /\ updates' = updates + 1

\* C17: when update_config returns from a request whose config is invalid,
\* CYCLE_COUNT, HOSPITALS and the stored config are those of the moment the
\* request arrived.
C17_InvalidConfigRejected ==
    [][ (ConfigReturns /\ ~ValidConfig(cfgArg[1])) =>
            /\ CYCLE_COUNT' = cfgArg[3].cycles
            /\ HOSPITALS' = cfgArg[3].hospitals
            /\ fstate'[CONFIG_FILE] = cfgArg[3].fstate
            /\ fdata'[CONFIG_FILE] = cfgArg[3].fdata ]_vars

\* no run and no handler is in progress: a file that is not a JSON document
\* is a malformed document left in the store, not a write under way
Settled == (\A r \in Runs : ~Alive(r)) /\ rpc = 0 /\ cpc = "idle"

Malformed(f) == fstate[f] = "partial"

\* C18: a malformed document is read as if it were absent: status answers
\* 404, history and agent log the empty list, global_model the "none yet"
\* marker, and no run is ended by json.load in load_config or
\* load_global_model.
C18_MalformedReadsAsAbsent ==
    /\ Settled =>
           /\ Malformed(STATUS_FILE) =>
                  get_status = [op |-> "status", code |-> 404, body |-> <<"No training data yet">>]
           /\ Malformed(HISTORY_FILE) =>
                  get_history = [op |-> "history", code |-> 200, body |-> <<>>]
           /\ Malformed(AGENT_LOG) =>
                  get_agent_log = [op |-> "agent_log", code |-> 200, body |-> <<>>]
           /\ Malformed(GLOBAL_MODEL_FILE) =>
                  get_global_model = [op |-> "global_model", code |-> 200,
                                      body |-> <<"No global weights yet.">>]
    /\ \A r \in Runs :
           run[r].exc \notin {"load_config: JSONDecodeError",
                              "load_global_model: JSONDecodeError"}

(***************************************************************************)
(* Properties of the hospital manager's registrations.                     *)
(***************************************************************************)
\* the addresses to which the latest train_all_hospitals of run r sent a request
Requested(r) ==
    {run[r].used[i] : i \in {j \in 1..Len(run[r].used) : run[r].outcome[j] # "typeerror"}}

\* C19: a run that loaded a configuration holding a hospital registered by
\* add_hospital sends, in each cycle, a request to that hospital's endpoint.
C19_RegisteredHospitalIsCalled ==
    \A r \in Runs :
        Trained(r) =>
            \A i \in 1..Len(run[r].loaded[2]) :
                run[r].loaded[2][i] \in DictEntries =>
                    Endpoint(run[r].loaded[2][i]) \in Requested(r)

(***************************************************************************)
(* The order of the writes of a cycle.                                     *)
(***************************************************************************)
\* the agent log holds the entry of run r for cycle c and action a
LogHolds(r, c, a) ==
    \E i \in 1..Len(ReadListOrEmpty(AGENT_LOG)) :
        ReadListOrEmpty(AGENT_LOG)[i] = [cycle |-> c, action |-> a, run |-> r]

\* the status document is the one of cycle c of run r
StatusHolds(r, c) ==
    /\ fstate[STATUS_FILE] = "ok"
    /\ fdata[STATUS_FILE][1].run = r
    /\ fdata[STATUS_FILE][1].cycle = c

HistoryHolds(r, c) == HasRecord(ReadListOrEmpty(HISTORY_FILE), r, c)

\* the aggregate of the current cycle of run r, if there is one, is stored
ModelStored(r) ==
    run[r].new_global_weights # None => StoredModel = run[r].new_global_weights

\* before the node calls of a cycle: its "Starting" entry is logged, nothing
\* of it is in status or history, and every write of the cycle before is done
BeforeCalls(r) ==
    LET c == run[r].cycle
    IN  /\ LogHolds(r, c, "Starting")
        /\ ~StatusHolds(r, c) /\ ~HistoryHolds(r, c)
        /\ c > 1 => /\ StatusHolds(r, c - 1)
                    /\ HistoryHolds(r, c - 1)
                    /\ LogHolds(r, c - 1, "Completed")

\* before the "Completed" entry: status, history and model are written
BeforeCompleted(r) ==
    LET c == run[r].cycle
    IN  /\ StatusHolds(r, c) /\ HistoryHolds(r, c) /\ ModelStored(r)
        /\ ~LogHolds(r, c, "Completed")

\* C20 as stated: the writes of a cycle are made in the order "Starting"
\* entry, status, history, global model, "Completed" entry, and the node
\* calls of a cycle begin after every write of the cycle before.
C20_StatusHistoryThenModel ==
    \A r \in Runs :
        LET c == run[r].cycle
        IN  /\ run[r].pc = "train" => BeforeCalls(r)
            /\ run[r].pc \in {"status_open", "status_write"} =>
                   LogHolds(r, c, "Starting") /\ ~HistoryHolds(r, c)
            /\ run[r].pc \in {"hist_read", "hist_open", "hist_write"} => StatusHolds(r, c)
            /\ run[r].pc \in {"model_open", "model_write"} =>
                   StatusHolds(r, c) /\ HistoryHolds(r, c)
            /\ run[r].pc \in {"log_done_read", "log_done_open", "log_done_write"} =>
                   BeforeCompleted(r)

\* C20: the writes of a cycle are made in the order "Starting" entry, global
\* model (when the cycle has an aggregate), status, history, "Completed"
\* entry, and the node calls of a cycle begin after every write of the cycle
\* before.
C20_ModelThenStatusHistory ==
    \A r \in Runs :
        LET c == run[r].cycle
        IN  /\ run[r].pc = "train" => BeforeCalls(r)
            /\ run[r].pc \in {"model_open", "model_write"} =>
                   /\ LogHolds(r, c, "Starting")
                   /\ ~StatusHolds(r, c) /\ ~HistoryHolds(r, c)
            /\ run[r].pc \in {"status_open", "status_write"} =>
                   ModelStored(r) /\ ~HistoryHolds(r, c)
            /\ run[r].pc \in {"hist_read", "hist_open", "hist_write"} =>
                   ModelStored(r) /\ StatusHolds(r, c)
            /\ run[r].pc \in {"log_done_read", "log_done_open", "log_done_write"} =>
                   BeforeCompleted(r)

\* C20 witness: in its second cycle the run has stored the new model and is
\* about to write the status, which is still the one of the first cycle.
C20_Witness ==
    /\ run[1].pc = "status_open"
    /\ run[1].cycle = 2
    /\ run[1].new_global_weights # None
    /\ StoredModel = run[1].new_global_weights
    /\ StoredModel # run[1].global_weights
    /\ StatusHolds(1, 1)

(***************************************************************************)
(* Properties of train_all_hospitals call by call.                         *)
(***************************************************************************)
\* the latest train_all_hospitals of run r has returned or raised
Gathered(r) == Trained(r) /\ run[r].pc # "gather" /\ run[r].arrivals # <<>>

\* entry i of results is what call i, to the i-th url, produced
FromCall(r, i) ==
    LET e == run[r].results[i]
    IN  IF run[r].actual[i] \in ExceptionKinds
        THEN e = ErrorEntry(i, run[r].actual[i])
        ELSE ~IsErrorEntry(e) /\ e.hospital = NodeName(run[r].tasks[i])

\* C21: when train_all_hospitals has returned, every call had completed,
\* whichever failed, and entry i of the results is the one of call i,
\* whatever the order of completion.
C21_GatherWaitsAndKeepsOrder ==
    \A r \in Runs :
        Gathered(r) =>
            /\ run[r].pending = {}
            /\ Len(run[r].arrivals) = Len(run[r].tasks)
            /\ run[r].outcome = run[r].actual
            /\ run[r].exc # "res.json: JSONDecodeError" =>
                   /\ Len(run[r].results) = Len(run[r].tasks)
                   /\ \A i \in 1..Len(run[r].tasks) : FromCall(r, i)

\* C21 witness: the call to node 3 failed first, the calls to nodes 1 and 2
\* then succeeded, node 2 before node 1; train_all_hospitals returned the
\* entries in the order of the nodes.
C21_Witness ==
    /\ Gathered(1)
    /\ run[1].arrivals = << [index |-> 3, kind |-> "timeout"],
                            [index |-> 2, kind |-> "ok"],
                            [index |-> 1, kind |-> "ok"] >>
    /\ run[1].results = << OkReply(U1, 1), OkReply(U2, 1), ErrorEntry(3, "timeout") >>

(***************************************************************************)
(* Properties of the agent log.                                            *)
(***************************************************************************)
\* the cycles of run r whose "Starting" log_agent_action has returned
StartedCycles(r) ==
    IF run[r].pc \in {"log_start_read", "log_start_open", "log_start_write"}
    THEN 1..(run[r].cycle - 1)
    ELSE 1..run[r].cycle

\* the cycles of run r whose "Completed" log_agent_action has returned
CompletedCycles(r) ==
    IF run[r].pc = "done" THEN 1..run[r].cycle ELSE 1..(run[r].cycle - 1)

\* the positions of the entries of run r, cycle c and action a in log
Positions(log, r, c, a) ==
    {i \in 1..Len(log) : log[i] = [cycle |-> c, action |-> a, run |-> r]}

ActionCount(log, a) == Cardinality({i \in 1..Len(log) : log[i].action = a})

\* C22: whenever the agent log is a complete document, it holds exactly one
\* "Starting" entry for every cycle started and exactly one "Completed" entry,
\* after the "Starting" one, for every cycle completed, and no more
\* "Completed" than "Starting" entries, also when runs overlap.
C22_AuditLogKeepsEveryEntry ==
    fstate[AGENT_LOG] = "ok" =>
        LET log == fdata[AGENT_LOG]
        IN  /\ \A r \in Runs :
                   /\ \A c \in StartedCycles(r) :
                          Cardinality(Positions(log, r, c, "Starting")) = 1
                   /\ \A c \in CompletedCycles(r) :
                          /\ Cardinality(Positions(log, r, c, "Completed")) = 1
                          /\ \A i \in Positions(log, r, c, "Starting") :
                                 \A j \in Positions(log, r, c, "Completed") : i < j
            /\ ActionCount(log, "Completed") <= ActionCount(log, "Starting")

(***************************************************************************)
(* The global model in memory and in the store.                            *)
(***************************************************************************)
\* run r is at the start of a cycle: from the top of the loop body to the
\* node calls
AtCycleStart(r) ==
    run[r].pc \in {"log_start_read", "log_start_open", "log_start_write", "train"}

\* C23: at the start of every cycle of a run, global_weights, which the run
\* is about to send to the nodes, is the stored global model (None when none
\* is stored).
C23_MemoryModelIsStoredModel ==
    \A r \in Runs : AtCycleStart(r) => run[r].global_weights = StoredModel

=============================================================================
